---- MODULE Spec2Model ----
(***************************************************************************)
(* Model of yamaha_rs device discovery (src/src/discover.rs) and of the    *)
(* response-code handling of its control API (src/src/lib.rs).             *)
(*                                                                         *)
(* Text is modelled as a sequence of symbols.  A symbol is a one-character *)
(* string ("x", ":", " ") or, in the discovery runs, a word that the code  *)
(* only ever handles as a unit ("LOCATION", "hostA", "friendlyName").      *)
(* Every string operation of the source (lines, trim, to_ascii_lowercase,  *)
(* starts_with, split_once, find, split) is computed on these sequences    *)
(* symbol by symbol, the way the source computes it byte by byte.          *)
(***************************************************************************)
EXTENDS Integers, Sequences, FiniteSets, TLC

VARIABLES
    hResp,      \* extract_header: the response text it is called on
    hOut,       \* extract_header: what the call returned (Pending before)
    pIn,        \* a parser or control-API function called alone: its input
    pOut,       \* a parser or control-API function called alone: its result
    platform,   \* the build: "windows" (cfg target_os = "windows") or "other"
    ifaces,     \* what get_if_addrs() returns on this machine
    pc,         \* discover_yamaha_devices: where the calling thread is
    idx,        \* discover_yamaha_devices: position of the loop it is in
    probers,    \* one record per call of discover_candidates_from_iface_addr
    candLock,   \* candidates_arc: the prober holding the Mutex, 0 if free
    candShared, \* candidates_arc: the Vec inside the Mutex
    candidates, \* discover_yamaha_devices: the local Vec `candidates`
    resolvers,  \* one record per spawned resolve thread
    resLock,    \* result: the resolve thread holding the Mutex, 0 if free
    result,     \* result: the Vec inside the Mutex
    returned,   \* the value discover_yamaha_devices returned
    delivered,  \* datagrams the network has delivered to the open probing sockets
    world,      \* the surroundings pinned so far (bind outcomes, servers, datagrams)
    run,        \* which run of the operation this is (1 or 2)
    first       \* how the first run ended, once a second one has begun

headerVars == <<hResp, hOut, pIn, pOut>>
discoverVars ==
    <<platform, ifaces, pc, idx, probers, candLock, candShared, candidates,
      resolvers, resLock, result, returned, delivered, world, run, first>>
vars == <<headerVars, discoverVars>>

\* Option<T>: None, or Some(v)
None == [some |-> FALSE]
Some(v) == [some |-> TRUE, val |-> v]

\* no call has been made yet
Pending == [some |-> FALSE, pending |-> TRUE]

----------------------------------------------------------------------------
(* Bounds of the model *)

\* longest response text extract_header is explored on
MaxLen == 5

\* datagrams the network delivers to the probers of one run, in total
MaxDatagrams == 2

\* chunks a dripping description server sends before it stops or closes
MaxReads == 2

\* pieces a text extract_xml is explored on is made of
MaxXmlPieces == 5

\* pieces a URL the location split is explored on is made of
MaxUrlPieces == 5

\* pieces a payload the tag extraction of the resolver is explored on is made of
MaxPayloadPieces == 4

\* largest high half (the bits from 2^32 up) of a response_code explored
MaxHigh == 1

----------------------------------------------------------------------------
(* String primitives of the standard library, as the source uses them *)

\* char::is_whitespace, on the symbols that occur
IsWhitespace(c) == c \in {" ", "\t", "\r", "\n"}

\* u8::to_ascii_lowercase on one symbol: upper-case letters map to lower case
LowerOf ==
    [c \in {"X", "LOCATION", "Location"} |->
        CASE c = "X" -> "x"
          [] c = "LOCATION" -> "location"
          [] c = "Location" -> "location"]

\* str::to_ascii_lowercase
ToAsciiLowercase(s) ==
    [i \in 1..Len(s) |-> IF s[i] \in DOMAIN LowerOf THEN LowerOf[s[i]] ELSE s[i]]

\* str::trim_start
RECURSIVE TrimStart(_)
TrimStart(s) ==
    IF s # <<>> /\ IsWhitespace(Head(s)) THEN TrimStart(Tail(s)) ELSE s

\* str::trim_end
RECURSIVE TrimEnd(_)
TrimEnd(s) ==
    IF s # <<>> /\ IsWhitespace(s[Len(s)])
    THEN TrimEnd(SubSeq(s, 1, Len(s) - 1))
    ELSE s

\* str::trim
Trim(s) == TrimEnd(TrimStart(s))

\* str::starts_with
StartsWith(s, p) == Len(p) <= Len(s) /\ SubSeq(s, 1, Len(p)) = p

\* str::find(pattern): the least 1-based index at which p occurs in s, 0 if none
Find(s, p) ==
    LET hits == {i \in 1..(Len(s) - Len(p) + 1) : SubSeq(s, i, i + Len(p) - 1) = p}
    IN  IF hits = {} THEN 0 ELSE CHOOSE i \in hits : \A j \in hits : i <= j

\* str::split_once(':').map(|x| x.1): the text after the first delimiter
SplitOnceAfter(s, d) ==
    LET i == Find(s, <<d>>)
    IN  IF i = 0 THEN None ELSE Some(SubSeq(s, i + 1, Len(s)))

\* str::split(pattern): the segments of s between the occurrences of p
RECURSIVE Split(_, _)
Split(s, p) ==
    LET i == Find(s, p)
    IN  IF i = 0 THEN <<s>>
        ELSE <<SubSeq(s, 1, i - 1)>> \o Split(SubSeq(s, i + Len(p), Len(s)), p)

\* str::lines: split at "\n", a "\r" before the "\n" belongs to the line
\* ending, and a final line ending does not start another (empty) line
Lines(s) ==
    LET segs == Split(s, <<"\n">>)
        n    == Len(segs)
        kept == IF segs[n] = <<>> THEN SubSeq(segs, 1, n - 1) ELSE segs
        strip(l, terminated) ==
            IF terminated /\ l # <<>> /\ l[Len(l)] = "\r"
            THEN SubSeq(l, 1, Len(l) - 1)
            ELSE l
    IN  [i \in 1..Len(kept) |-> strip(kept[i], i < n)]

----------------------------------------------------------------------------
(* Response Parser: extract_header *)

\* extract_header without the lower-casing of the line (a case-sensitive scan)
RECURSIVE HeaderScanCaseSensitive(_, _)
HeaderScanCaseSensitive(lines, h) ==
    IF lines = <<>> THEN None
    ELSE LET l == Trim(Head(lines))
             v == SplitOnceAfter(l, ":")
         IN  IF StartsWith(l, h) /\ v.some
             THEN Some(Trim(v.val))
             ELSE HeaderScanCaseSensitive(Tail(lines), h)

\* the loop of extract_header over the remaining lines, h already lower-cased
RECURSIVE HeaderScan(_, _)
HeaderScan(lines, h) ==
    IF lines = <<>> THEN None
    ELSE LET l == Trim(Head(lines))
             v == SplitOnceAfter(l, ":")
         IN  IF StartsWith(ToAsciiLowercase(l), h) /\ v.some
             THEN Some(Trim(v.val))
             ELSE HeaderScan(Tail(lines), h)

\* fn extract_header(resp, header) -> Option<String>
ExtractHeader(resp, header) == HeaderScan(Lines(resp), ToAsciiLowercase(header))

----------------------------------------------------------------------------
(* Response Parser: extract_xml, extract_host_port, extract_path *)

\* extract_xml looking for the closing delimiter from the start of the text
ExtractXmlCloseFromStart(xml, tag) ==
    LET open  == <<"<">> \o tag \o <<">">>
        close == <<"<", "/">> \o tag \o <<">">>
        o     == Find(xml, open)
        start == o + Len(open)
        c     == Find(xml, close)
    IN  IF o = 0 THEN None
        ELSE IF c = 0 THEN None
        ELSE Some(Trim(SubSeq(xml, start, c - 1)))

\* fn extract_xml(xml, tag) -> Option<String>
ExtractXml(xml, tag) ==
    LET open  == <<"<">> \o tag \o <<">">>
        close == <<"<", "/">> \o tag \o <<">">>
        o     == Find(xml, open)
        start == o + Len(open)
        rest  == SubSeq(xml, start, Len(xml))
        c     == Find(rest, close)
    IN  IF o = 0 THEN None
        ELSE IF c = 0 THEN None
        ELSE Some(Trim(SubSeq(rest, 1, c - 1)))

\* url.split("://").nth(1)
NoProto(url) ==
    LET parts == Split(url, <<":", "/", "/">>)
    IN  IF Len(parts) >= 2 THEN Some(parts[2]) ELSE None

\* fn extract_host_port(url) -> Option<String>
ExtractHostPort(url) ==
    LET np == NoProto(url)
    IN  IF ~np.some THEN None ELSE Some(Split(np.val, <<"/">>)[1])

\* fn extract_path(url) -> Option<String>
ExtractPath(url) ==
    LET np == NoProto(url)
    IN  IF ~np.some THEN None
        ELSE LET after == SplitOnceAfter(np.val, "/")
             IN  IF after.some THEN Some(<<"/">> \o after.val) ELSE Some(<<"/">>)

\* addr.parse::<SocketAddr>().ok(): an IP literal, a colon and a port number
IpLiterals == {"10.0.0.5", "10.0.0.7", "10.0.0.9"}
PortNumbers == {"80", "49154"}
ParseSocketAddr(addr) ==
    IF Len(addr) = 3 /\ addr[1] \in IpLiterals /\ addr[2] = ":" /\ addr[3] \in PortNumbers
    THEN Some(addr)
    ELSE None

----------------------------------------------------------------------------
(* The surroundings of a discovery run: interfaces, responders, servers *)

\* program constants (seconds and milliseconds)
Window == 3
RecvTimeout == 3
ConnectTimeout == 800
WriteTimeout == 1000
ReadTimeout == 1000

\* manu == "Yamaha Corporation"
YamahaCorporation == <<"Yamaha", " ", "Corporation">>

\* what get_if_addrs() can return: an error, or a list of interfaces
IfEth  == [name |-> "Ethernet",  ip |-> "192.168.1.2", ipv4 |-> TRUE,  loopback |-> FALSE]
IfWlan == [name |-> "Wi-Fi",     ip |-> "192.168.1.3", ipv4 |-> TRUE,  loopback |-> FALSE]
IfLo   == [name |-> "Loopback",  ip |-> "127.0.0.1",   ipv4 |-> TRUE,  loopback |-> TRUE]
IfV6   == [name |-> "Ethernet6", ip |-> "fe80::1",     ipv4 |-> FALSE, loopback |-> FALSE]
IfVirt == [name |-> "vEthernet", ip |-> "172.20.0.1",  ipv4 |-> TRUE,  loopback |-> FALSE]

IfaceAnswers ==
    { [ok |-> FALSE, list |-> <<>>],
      [ok |-> TRUE,  list |-> <<>>],
      [ok |-> TRUE,  list |-> <<IfLo, IfEth>>],
      [ok |-> TRUE,  list |-> <<IfEth, IfV6, IfVirt, IfWlan>>] }

\* iface.name.starts_with("vEthernet"), names being single symbols here
IsVirtualName(name) == name = "vEthernet"

\* the three `continue`s of the interface loop
SkipIface(iface) ==
    \/ ~iface.ipv4
    \/ iface.loopback
    \/ IsVirtualName(iface.name)

\* source addresses of the responders on the network
SourceIps == {"10.0.0.5", "10.0.0.7"}

\* description URLs the responders advertise
UrlA == <<"http", ":", "/", "/", "10.0.0.5", ":", "49154", "/", "desc.xml">>
UrlB == <<"http", ":", "/", "/", "10.0.0.9", ":", "80">>
UrlHostName == <<"http", ":", "/", "/", "receiver.local", "/", "desc.xml">>
UrlNoScheme == <<"desc.xml">>

StatusLine == <<"HTTP/1.1 200 OK", "\r", "\n">>
SsdpResponse(headerName, url) ==
    StatusLine \o <<"ST", ":", " ", "upnp:rootdevice", "\r", "\n">>
               \o <<headerName, ":", " ">> \o url \o <<"\r", "\n", "\r", "\n">>
SsdpNoLocation ==
    StatusLine \o <<"ST", ":", " ", "upnp:rootdevice", "\r", "\n", "\r", "\n">>

\* the datagrams that can arrive on a probing socket
Datagrams ==
    { [src |-> "10.0.0.5", text |-> SsdpResponse("LOCATION", UrlA)],
      [src |-> "10.0.0.5", text |-> SsdpResponse("Location", UrlB)],
      [src |-> "10.0.0.5", text |-> SsdpNoLocation],
      [src |-> "10.0.0.7", text |-> SsdpResponse("LOCATION", UrlA)],
      [src |-> "10.0.0.7", text |-> SsdpResponse("LOCATION", UrlHostName)],
      [src |-> "10.0.0.7", text |-> SsdpResponse("location", UrlNoScheme)] }

\* seconds a recv_from call waits before a datagram arrives
RecvDelays == {1, 2}

\* description documents a server may answer with
Element(tag, text) == <<"<", tag, ">">> \o text \o <<"<", "/", tag, ">">>
HttpOk == <<"HTTP/1.1 200 OK", "\r", "\n", "\r", "\n">>
DocYamahaA ==
    HttpOk \o Element("friendlyName", <<"Receiver-A">>)
           \o Element("manufacturer", <<" ", "Yamaha", " ", "Corporation", "\n">>)
DocYamahaB ==
    HttpOk \o Element("manufacturer", YamahaCorporation)
           \o Element("friendlyName", <<"Receiver-B">>)
DocOther ==
    HttpOk \o Element("friendlyName", <<"Receiver-A">>)
           \o Element("manufacturer", <<"Other", " ", "Corp">>)
DocNearMiss ==
    HttpOk \o Element("friendlyName", <<"Receiver-A">>)
           \o Element("manufacturer", <<"Yamaha", " ", "corporation">>)
DocNoManufacturer ==
    HttpOk \o Element("friendlyName", <<"Receiver-A">>)

Docs == {DocYamahaA, DocYamahaB, DocOther, DocNearMiss, DocNoManufacturer}

\* what a description server does with one connection
\*   refused:     the port is closed, connect fails at once
\*   unreachable: connect runs into its timeout
\*   reset:       accepts, then resets: write_all fails
\*   silent:      accepts, never sends, never closes: read runs into its timeout
\*   drip:        accepts and keeps sending a chunk every DripInterval ms
\*   serve:       sends a document and closes
ServerBehaviours ==
    { [kind |-> k, doc |-> <<>>] : k \in {"refused", "unreachable", "reset", "silent", "drip"} }
    \cup { [kind |-> "serve", doc |-> d] : d \in Docs }

\* milliseconds between two chunks of a dripping server (below ReadTimeout)
DripInterval == 900
DripChunk == <<"x">>

\* the socket addresses description URLs can name
ServerAddrs == { <<"10.0.0.5", ":", "49154">>, <<"10.0.0.9", ":", "80">> }

\* local bind addresses (one per interface, or the wildcard)
BindAddrs == {"0.0.0.0", IfEth.ip, IfWlan.ip}

\* a server whose behaviour is not pinned
AnyBehaviour == [kind |-> "any", doc |-> <<>>]

\* nothing about the surroundings is pinned yet
Unpinned ==
    [ bind   |-> [b \in BindAddrs |-> "any"],
      server |-> [a \in ServerAddrs |-> AnyBehaviour],
      air    |-> [b \in BindAddrs |-> [d \in Datagrams |-> 0]] ]

----------------------------------------------------------------------------
(* Pinning: when the same surroundings have to answer a second run, every  *)
(* answer the surroundings give is pinned (pin = TRUE) and given again.    *)

\* may the bind/send of binding b end with outcome o ("ok" or "fail")?
BindMayEnd(b, o) == world.bind[b] \in {"any", o}
PinBind(b, o, pin) ==
    IF pin THEN [world EXCEPT !.bind[b] = o] ELSE world

\* may the server at address a behave as bh on this connection?
ServerMay(a, bh) == world.server[a] \in {AnyBehaviour, bh}
PinServer(a, bh, pin) ==
    IF pin THEN [world EXCEPT !.server[a] = bh] ELSE world

\* may datagram d arrive on binding b now?  In a first run any datagram may,
\* up to MaxDatagrams per run; a second run hears what the first one heard.
MayArrive(b, d) ==
    IF run = 1 THEN delivered < MaxDatagrams ELSE world.air[b][d] > 0
PinArrival(b, d, pin) ==
    IF ~pin THEN world
    ELSE IF run = 1 THEN [world EXCEPT !.air[b][d] = @ + 1]
    ELSE [world EXCEPT !.air[b][d] = @ - 1]

----------------------------------------------------------------------------
(* Mutex *)

\* a lock that is always granted (no mutual exclusion)
CanLockAlways(holder) == TRUE

\* Mutex::lock returns only when no other thread holds the guard
CanLock(holder) == holder = 0

----------------------------------------------------------------------------
(* Interface-Scoped Prober: discover_candidates_from_iface_addr            *)
(* A prober record holds the locals of one call: `seen`, `candidates`      *)
(* (cands) and start.elapsed() in seconds; heard is history, the source    *)
(* addresses of the datagrams recv_from has returned in this call.         *)

NewProber(bindAddr) ==
    [bind |-> bindAddr, st |-> "setup", elapsed |-> 0, seen |-> {}, cands |-> <<>>,
     heard |-> {}]

\* the body of the receive loop with a missing LOCATION header taken as an
\* empty location (unwrap_or_default in place of `if let Some`)
RecordDatagramAnyHeader(p, d) ==
    IF d.src \in p.seen THEN p
    ELSE LET loc == ExtractHeader(d.text, <<"LOCATION">>)
         IN  [p EXCEPT !.seen = @ \cup {d.src},
                       !.cands = Append(@, [ip |-> d.src,
                                            loc |-> IF loc.some THEN loc.val ELSE <<>>])]

\* the body of the receive loop for one received datagram, with the
\* duplicate-source check left out
RecordDatagramNoSeenCheck(p, d) ==
    LET loc == ExtractHeader(d.text, <<"LOCATION">>)
    IN  IF loc.some
        THEN [p EXCEPT !.seen = @ \cup {d.src},
                       !.cands = Append(@, [ip |-> d.src, loc |-> loc.val])]
        ELSE p

\* the body of the receive loop with the source recorded as seen for every
\* datagram, whether or not it carries a LOCATION header
RecordDatagramSeenAlways(p, d) ==
    IF d.src \in p.seen THEN p
    ELSE LET loc == ExtractHeader(d.text, <<"LOCATION">>)
         IN  IF loc.some
             THEN [p EXCEPT !.seen = @ \cup {d.src},
                            !.cands = Append(@, [ip |-> d.src, loc |-> loc.val])]
             ELSE [p EXCEPT !.seen = @ \cup {d.src}]

\* the body of the receive loop for one received datagram (lines 110-121)
RecordDatagram(p, d) ==
    IF d.src \in p.seen THEN p
    ELSE LET loc == ExtractHeader(d.text, <<"LOCATION">>)
         IN  IF loc.some
             THEN [p EXCEPT !.seen = @ \cup {d.src},
                            !.cands = Append(@, [ip |-> d.src, loc |-> loc.val])]
             ELSE p

\* the function returns: its socket, clock and `seen` are dropped, the
\* returned Vec lives on in the closure as iface_candidates
Returned(p) == [p EXCEPT !.st = "merge", !.elapsed = 0, !.seen = {}, !.heard = {}]

\* the thread has ended (st is "done" or "panicked"): nothing of it is left
Ended(p, st) == [NewProber(p.bind) EXCEPT !.st = st]

\* a prober running on the calling thread (the non-Windows build)
Inline(i) == platform = "other"

\* a closure that takes the guard before it calls the prober:
\* candidates_arc.lock().unwrap().extend(discover_candidates_from_iface_addr(..))
ProbeSetupHoldingLock(i, pin) ==
    /\ i \in 1..Len(probers)
    /\ probers[i].st = "setup"
    /\ pc # "panicked"
    /\ Inline(i) \/ CanLock(candLock)
    /\ \E o \in {"ok", "fail"} :
        /\ BindMayEnd(probers[i].bind, o)
        /\ world' = PinBind(probers[i].bind, o, pin)
        /\ IF o = "ok"
           THEN /\ probers' = [probers EXCEPT ![i].st = "recv"]
                /\ pc' = pc
                /\ candLock' = IF Inline(i) THEN candLock ELSE i
           ELSE /\ probers' = [probers EXCEPT ![i] = Ended(@, "panicked")]
                /\ pc' = IF Inline(i) THEN "panicked" ELSE pc
                /\ candLock' = candLock
    /\ UNCHANGED <<headerVars, platform, ifaces, idx, candShared,
                   candidates, resolvers, resLock, result, returned, delivered,
                   run, first>>

\* UdpSocket::bind, the two set_*_timeout and send_to, each unwrapped:
\* a failure panics the thread the prober runs on
ProbeSetup(i, pin) ==
    /\ i \in 1..Len(probers)
    /\ probers[i].st = "setup"
    /\ pc # "panicked"
    /\ \E o \in {"ok", "fail"} :
        /\ BindMayEnd(probers[i].bind, o)
        /\ world' = PinBind(probers[i].bind, o, pin)
        /\ IF o = "ok"
           THEN /\ probers' = [probers EXCEPT ![i].st = "recv"]
                /\ pc' = pc
           ELSE /\ probers' = [probers EXCEPT ![i] = Ended(@, "panicked")]
                /\ pc' = IF Inline(i) THEN "panicked" ELSE pc
    /\ UNCHANGED <<headerVars, platform, ifaces, idx, candLock, candShared,
                   candidates, resolvers, resLock, result, returned, delivered,
                   run, first>>

\* one iteration of `while start.elapsed() < Duration::from_secs(3)`:
\* recv_from returns a datagram after a delay, or an error at the read timeout
ProbeRecv(i, pin) ==
    /\ i \in 1..Len(probers)
    /\ probers[i].st = "recv"
    /\ probers[i].elapsed < Window
    /\ \/ \E d \in Datagrams, t \in RecvDelays :
            /\ t < RecvTimeout
            /\ MayArrive(probers[i].bind, d)
            /\ world' = PinArrival(probers[i].bind, d, pin)
            /\ delivered' = delivered + 1
            /\ probers' = [probers EXCEPT
                  ![i] = [RecordDatagram(@, d) EXCEPT !.elapsed = @ + t,
                                                      !.heard = @ \cup {d.src}]]
       \/ /\ probers' = [probers EXCEPT ![i].elapsed = @ + RecvTimeout]
          /\ UNCHANGED <<world, delivered>>
    /\ UNCHANGED <<headerVars, platform, ifaces, pc, idx, candLock, candShared,
                   candidates, resolvers, resLock, result, returned, run, first>>

\* a count-bounded loop: the prober returns as soon as it has a candidate
ProbeReturnAfterFirst(i) ==
    /\ i \in 1..Len(probers)
    /\ probers[i].st = "recv"
    /\ probers[i].elapsed >= Window \/ Len(probers[i].cands) >= 1
    /\ IF Inline(i)
       THEN /\ probers' = [probers EXCEPT ![i] = Ended(@, "done")]
            /\ candidates' = candidates \o probers[i].cands
            /\ pc' = "resolve_spawn"
            /\ idx' = 1
            /\ delivered' = 0
       ELSE /\ probers' = [probers EXCEPT ![i] = Returned(@)]
            /\ UNCHANGED <<candidates, pc, idx, delivered>>
    /\ UNCHANGED <<headerVars, platform, ifaces, candLock, candShared,
                   resolvers, resLock, result, returned, world, run, first>>

\* the loop condition fails and the prober returns `candidates`:
\* to the spawned closure on Windows, to candidates.extend(...) otherwise
ProbeReturn(i) ==
    /\ i \in 1..Len(probers)
    /\ probers[i].st = "recv"
    /\ probers[i].elapsed >= Window
    /\ IF Inline(i)
       THEN /\ probers' = [probers EXCEPT ![i] = Ended(@, "done")]
            /\ candidates' = candidates \o probers[i].cands
            /\ pc' = "resolve_spawn"
            /\ idx' = 1
            /\ delivered' = 0
       ELSE /\ probers' = [probers EXCEPT ![i] = Returned(@)]
            /\ UNCHANGED <<candidates, pc, idx, delivered>>
    /\ UNCHANGED <<headerVars, platform, ifaces, candLock, candShared,
                   resolvers, resLock, result, returned, world, run, first>>

\* candidates_arc.lock().unwrap()
ProbeLock(i) ==
    /\ i \in 1..Len(probers)
    /\ probers[i].st = "merge"
    /\ CanLock(candLock)
    /\ candLock' = i
    /\ probers' = [probers EXCEPT ![i].st = "locked"]
    /\ UNCHANGED <<headerVars, platform, ifaces, pc, idx, candShared, candidates,
                   resolvers, resLock, result, returned, delivered, world, run, first>>

\* c.extend(iface_candidates); the guard is dropped as the closure ends
ProbeExtend(i) ==
    /\ i \in 1..Len(probers)
    /\ probers[i].st = "locked"
    /\ candShared' = candShared \o probers[i].cands
    /\ candLock' = 0
    /\ probers' = [probers EXCEPT ![i] = Ended(@, "done")]
    /\ UNCHANGED <<headerVars, platform, ifaces, pc, idx, candidates,
                   resolvers, resLock, result, returned, delivered, world, run, first>>

----------------------------------------------------------------------------
(* Device Identity Resolver: extract_device_info, and the resolve closure *)

NewResolver(c) ==
    [ip |-> c.ip, loc |-> c.loc, st |-> "run", info |-> None, reads |-> 0, rlen |-> 0]

\* lines 164-167: both tags, or nothing
DeviceInfoFrom(xml) ==
    LET friendly == ExtractXml(xml, <<"friendlyName">>)
        manu     == ExtractXml(xml, <<"manufacturer">>)
    IN  IF friendly.some /\ manu.some
        THEN Some([friendly |-> friendly.val, manu |-> manu.val])
        ELSE None

\* a filter that compares only the first word
ManufacturerPrefix(manu) == manu # <<>> /\ manu[1] = YamahaCorporation[1]

\* manu == "Yamaha Corporation"
ManufacturerMatches(manu) == manu = YamahaCorporation

\* YamahaDevice { ip, name: friendly }
Device(r, info) == [ip |-> r.ip, name |-> info.friendly]

\* a resolve closure that unwraps the description: a failed resolution panics
ResolvedUnwrap(r, info) ==
    [r EXCEPT !.info = info,
              !.reads = 0,
              !.st = IF ~info.some THEN "panicked"
                     ELSE IF ManufacturerMatches(info.val.manu) THEN "push"
                     ELSE "done"]

\* extract_device_info has returned `info`: the `if let ... && manu == ...`
Resolved(r, info) ==
    [r EXCEPT !.info = info,
              !.reads = 0,
              !.st = IF info.some /\ ManufacturerMatches(info.val.manu)
                     THEN "push" ELSE "done"]

\* extract_device_info up to read_to_end: split the URL, parse the address,
\* connect, write the request, read the answer
ResolveFetch(w, pin) ==
    /\ w \in 1..Len(resolvers)
    /\ resolvers[w].st = "run"
    /\ LET r    == resolvers[w]
           hp   == ExtractHostPort(r.loc)
           addr == IF hp.some THEN ParseSocketAddr(hp.val) ELSE None
       IN  IF ~addr.some
           THEN /\ resolvers' = [resolvers EXCEPT ![w] = Resolved(r, None)]
                /\ world' = world
           ELSE \E bh \in ServerBehaviours :
                /\ ServerMay(addr.val, bh)
                /\ world' = PinServer(addr.val, bh, pin)
                /\ resolvers' = [resolvers EXCEPT ![w] =
                      CASE bh.kind = "serve" -> Resolved(r, DeviceInfoFrom(bh.doc))
                        [] bh.kind = "drip"  -> [r EXCEPT !.st = "reading"]
                        [] OTHER             -> Resolved(r, None)]
    /\ UNCHANGED <<headerVars, platform, ifaces, pc, idx, probers, candLock,
                   candShared, candidates, resLock, result, returned, delivered,
                   run, first>>

\* the text read_to_end has gathered from a dripping server so far
RECURSIVE Dripped(_)
Dripped(n) == IF n = 0 THEN <<>> ELSE DripChunk \o Dripped(n - 1)

\* read_to_end on a dripping server: another chunk arrives before the read
\* timeout, or the server falls silent (the read fails), or it closes
ResolveRead(w) ==
    /\ w \in 1..Len(resolvers)
    /\ resolvers[w].st = "reading"
    /\ LET r == resolvers[w]
       IN  \/ /\ r.reads < MaxReads
              /\ resolvers' = [resolvers EXCEPT ![w].reads = @ + 1]
           \/ resolvers' = [resolvers EXCEPT ![w] = Resolved(r, None)]
           \/ resolvers' = [resolvers EXCEPT ![w] =
                  Resolved(r, DeviceInfoFrom(Dripped(r.reads)))]
    /\ UNCHANGED <<headerVars, platform, ifaces, pc, idx, probers, candLock,
                   candShared, candidates, resLock, result, returned, delivered,
                   world, run, first>>

\* result.lock().unwrap(): the guard gives access to the Vec as it is now
ResolveLock(w) ==
    /\ w \in 1..Len(resolvers)
    /\ resolvers[w].st = "push"
    /\ CanLock(resLock)
    /\ resLock' = w
    /\ resolvers' = [resolvers EXCEPT ![w].st = "locked", ![w].rlen = Len(result)]
    /\ UNCHANGED <<headerVars, platform, ifaces, pc, idx, probers, candLock,
                   candShared, candidates, result, returned, delivered, world,
                   run, first>>

\* r.push(YamahaDevice { ip, name: friendly }): written behind the length
\* seen under the guard; the guard is dropped as the closure ends
ResolvePush(w) ==
    /\ w \in 1..Len(resolvers)
    /\ resolvers[w].st = "locked"
    /\ LET r == resolvers[w]
       IN  result' = Append(SubSeq(result, 1, r.rlen), Device(r, r.info.val))
    /\ resLock' = 0
    /\ resolvers' = [resolvers EXCEPT ![w].st = "done", ![w].rlen = 0]
    /\ UNCHANGED <<headerVars, platform, ifaces, pc, idx, probers, candLock,
                   candShared, candidates, returned, delivered, world, run, first>>

----------------------------------------------------------------------------
(* Discovery Coordinator: discover_yamaha_devices on the calling thread *)

\* lines 11-21 and 61-66: the platform decides how candidates are gathered
Start ==
    /\ pc = "start"
    /\ IF platform = "windows"
       THEN /\ pc' = IF ifaces.ok THEN "probe_spawn" ELSE "resolve_spawn"
            /\ probers' = probers
       ELSE /\ pc' = "probe_inline"
            /\ probers' = <<NewProber("0.0.0.0")>>
    /\ idx' = 1
    /\ UNCHANGED <<headerVars, platform, ifaces, candLock, candShared, candidates,
                   resolvers, resLock, result, returned, delivered, world, run, first>>

\* one iteration of `for iface in ifaces`: skip the interface or spawn its prober
SpawnProber ==
    /\ pc = "probe_spawn"
    /\ idx <= Len(ifaces.list)
    /\ probers' = IF SkipIface(ifaces.list[idx])
                  THEN probers
                  ELSE Append(probers, NewProber(ifaces.list[idx].ip))
    /\ idx' = idx + 1
    /\ UNCHANGED <<headerVars, platform, ifaces, pc, candLock, candShared,
                   candidates, resolvers, resLock, result, returned, delivered,
                   world, run, first>>

\* the interface loop ends; the join loop begins
SpawnedProbers ==
    /\ pc = "probe_spawn"
    /\ idx > Len(ifaces.list)
    /\ pc' = "probe_join"
    /\ idx' = 1
    /\ UNCHANGED <<headerVars, platform, ifaces, probers, candLock, candShared,
                   candidates, resolvers, resLock, result, returned, delivered,
                   world, run, first>>

\* a join loop that does not wait for the thread to end
JoinProberNoWait ==
    /\ pc = "probe_join"
    /\ idx <= Len(probers)
    /\ idx' = idx + 1
    /\ UNCHANGED <<headerVars, platform, ifaces, pc, probers, candLock, candShared,
                   candidates, resolvers, resLock, result, returned, delivered,
                   world, run, first>>

\* handle.join().unwrap() on the next probe thread: returns when the thread
\* has ended, and panics if the thread panicked
JoinProber ==
    /\ pc = "probe_join"
    /\ idx <= Len(probers)
    /\ probers[idx].st \in {"done", "panicked"}
    /\ IF probers[idx].st = "done"
       THEN /\ idx' = idx + 1
            /\ pc' = pc
       ELSE /\ pc' = "panicked"
            /\ idx' = idx
    /\ UNCHANGED <<headerVars, platform, ifaces, probers, candLock, candShared,
                   candidates, resolvers, resLock, result, returned, delivered,
                   world, run, first>>

\* candidates = candidates_arc.lock().unwrap().clone()
CollectCandidates ==
    /\ pc = "probe_join"
    /\ idx > Len(probers)
    /\ CanLock(candLock)
    /\ candidates' = candShared
    /\ pc' = "resolve_spawn"
    /\ idx' = 1
    /\ delivered' = 0
    /\ UNCHANGED <<headerVars, platform, ifaces, probers, candLock, candShared,
                   resolvers, resLock, result, returned, world, run, first>>

\* one iteration of `for (ip, loc) in candidates`: spawn the resolve thread
SpawnResolver ==
    /\ pc = "resolve_spawn"
    /\ idx <= Len(candidates)
    /\ resolvers' = Append(resolvers, NewResolver(candidates[idx]))
    /\ idx' = idx + 1
    /\ UNCHANGED <<headerVars, platform, ifaces, pc, probers, candLock, candShared,
                   candidates, resLock, result, returned, delivered, world, run, first>>

\* the candidate loop ends; the join loop begins
SpawnedResolvers ==
    /\ pc = "resolve_spawn"
    /\ idx > Len(candidates)
    /\ pc' = "resolve_join"
    /\ idx' = 1
    /\ UNCHANGED <<headerVars, platform, ifaces, probers, candLock, candShared,
                   candidates, resolvers, resLock, result, returned, delivered,
                   world, run, first>>

\* handle.join().unwrap() on the next resolve thread: returns when the
\* thread has ended, and panics if the thread panicked
JoinResolver ==
    /\ pc = "resolve_join"
    /\ idx <= Len(resolvers)
    /\ resolvers[idx].st \in {"done", "panicked"}
    /\ IF resolvers[idx].st = "done"
       THEN /\ idx' = idx + 1
            /\ pc' = pc
       ELSE /\ pc' = "panicked"
            /\ idx' = idx
    /\ UNCHANGED <<headerVars, platform, ifaces, probers, candLock, candShared,
                   candidates, resolvers, resLock, result, returned, delivered,
                   world, run, first>>

\* Arc::try_unwrap(result).unwrap().into_inner().unwrap()
Return ==
    /\ pc = "resolve_join"
    /\ idx > Len(resolvers)
    /\ CanLock(resLock)
    /\ returned' = result
    /\ pc' = "done"
    /\ UNCHANGED <<headerVars, platform, ifaces, idx, probers, candLock, candShared,
                   candidates, resolvers, resLock, result, delivered, world, run, first>>

----------------------------------------------------------------------------
(* Specifications *)

HeaderIdle == hResp = <<>> /\ hOut = Pending /\ pIn = <<>> /\ pOut = Pending

DiscoverFresh ==
    /\ pc = "start"
    /\ idx = 1
    /\ probers = <<>>
    /\ candLock = 0
    /\ candShared = <<>>
    /\ candidates = <<>>
    /\ resolvers = <<>>
    /\ resLock = 0
    /\ result = <<>>
    /\ returned = <<>>
    /\ delivered = 0

NoIfaces == [ok |-> FALSE, list |-> <<>>]

\* how a run ended: by a panic or with a list, and what its probers had heard
NoOutcome == [ended |-> FALSE, panicked |-> FALSE, devices |-> {}, heard |-> Unpinned.air]
Outcome ==
    [ended |-> TRUE, panicked |-> pc = "panicked",
     devices |-> IF pc = "done" THEN {returned[k] : k \in 1..Len(returned)} ELSE {},
     heard |-> IF run = 1 THEN world.air ELSE first.heard]

\* one run of discover_yamaha_devices, on either build
Init ==
    /\ HeaderIdle
    /\ \/ platform = "windows" /\ ifaces \in IfaceAnswers
       \/ platform = "other" /\ ifaces = NoIfaces
    /\ DiscoverFresh
    /\ world = Unpinned
    /\ run = 1
    /\ first = NoOutcome

Next ==
    \/ Start
    \/ SpawnProber
    \/ SpawnedProbers
    \/ \E i \in 1..Len(probers) : ProbeSetup(i, FALSE)
    \/ \E i \in 1..Len(probers) : ProbeRecv(i, FALSE)
    \/ \E i \in 1..Len(probers) : ProbeReturn(i)
    \/ \E i \in 1..Len(probers) : ProbeLock(i)
    \/ \E i \in 1..Len(probers) : ProbeExtend(i)
    \/ JoinProber
    \/ CollectCandidates
    \/ SpawnResolver
    \/ SpawnedResolvers
    \/ \E w \in 1..Len(resolvers) : ResolveFetch(w, FALSE)
    \/ \E w \in 1..Len(resolvers) : ResolveRead(w)
    \/ \E w \in 1..Len(resolvers) : ResolveLock(w)
    \/ \E w \in 1..Len(resolvers) : ResolvePush(w)
    \/ JoinResolver
    \/ Return

Spec == Init /\ [][Next]_vars

----------------------------------------------------------------------------
(* The operation run twice in unchanged surroundings (the non-Windows     *)
(* build): what the surroundings answered in the first run is pinned, and  *)
(* the second run gets the same bind outcome, the same server behaviour    *)
(* and the datagrams the first run heard, in any order.                    *)

\* the first call has ended; the operation is called again
RunAgain ==
    /\ run = 1
    /\ pc \in {"done", "panicked"}
    /\ first' = Outcome
    /\ run' = 2
    /\ pc' = "start"
    /\ idx' = 1
    /\ probers' = <<>>
    /\ candLock' = 0
    /\ candShared' = <<>>
    /\ candidates' = <<>>
    /\ resolvers' = <<>>
    /\ resLock' = 0
    /\ result' = <<>>
    /\ returned' = <<>>
    /\ delivered' = 0
    /\ UNCHANGED <<headerVars, platform, ifaces, world>>

TwiceInit ==
    /\ HeaderIdle
    /\ platform = "other"
    /\ ifaces = NoIfaces
    /\ DiscoverFresh
    /\ world = Unpinned
    /\ run = 1
    /\ first = NoOutcome

TwiceNext ==
    \/ Start
    \/ \E i \in 1..Len(probers) : ProbeSetup(i, TRUE)
    \/ \E i \in 1..Len(probers) : ProbeRecv(i, TRUE)
    \/ \E i \in 1..Len(probers) : ProbeReturn(i)
    \/ SpawnResolver
    \/ SpawnedResolvers
    \/ \E w \in 1..Len(resolvers) : ResolveFetch(w, TRUE)
    \/ \E w \in 1..Len(resolvers) : ResolveRead(w)
    \/ \E w \in 1..Len(resolvers) : ResolveLock(w)
    \/ \E w \in 1..Len(resolvers) : ResolvePush(w)
    \/ JoinResolver
    \/ Return
    \/ RunAgain

SpecTwice == TwiceInit /\ [][TwiceNext]_vars

----------------------------------------------------------------------------
(* extract_header explored on every short text over a small alphabet *)

HeaderAlphabet == {"x", "X", "v", ":", " ", "\n"}

HeaderTexts == UNION {[1..n -> HeaderAlphabet] : n \in 0..MaxLen}

\* the header name the exploration asks for
HeaderName == <<"x">>

HeaderInit ==
    /\ hResp \in HeaderTexts
    /\ hOut = Pending
    /\ pIn = <<>>
    /\ pOut = Pending
    /\ platform = "other"
    /\ ifaces = NoIfaces
    /\ DiscoverFresh
    /\ world = Unpinned
    /\ run = 1
    /\ first = NoOutcome

CallExtractHeader ==
    /\ hOut = Pending
    /\ hOut' = ExtractHeader(hResp, HeaderName)
    /\ UNCHANGED <<hResp, pIn, pOut, discoverVars>>

HeaderNext == CallExtractHeader

SpecHeader == HeaderInit /\ [][HeaderNext]_vars

----------------------------------------------------------------------------
(* A parser function called alone: the discovery run stays where it is *)

NoDiscovery ==
    /\ hResp = <<>>
    /\ hOut = Pending
    /\ platform = "other"
    /\ ifaces = NoIfaces
    /\ DiscoverFresh
    /\ world = Unpinned
    /\ run = 1
    /\ first = NoOutcome

\* the concatenation of a sequence of texts
RECURSIVE Flatten(_)
Flatten(ps) == IF ps = <<>> THEN <<>> ELSE Head(ps) \o Flatten(Tail(ps))

\* every text made of at most n pieces
TextsOf(pieces, n) == {Flatten(ps) : ps \in UNION {[1..k -> pieces] : k \in 0..n}}

----------------------------------------------------------------------------
(* extract_xml explored on short texts, symbol by symbol *)

\* the tag the exploration asks for
XmlTag == <<"a">>

\* whole delimiters, parts of delimiters, text and white space
XmlPieces ==
    { <<"<", "a", ">">>, <<"<", "/", "a", ">">>, <<"<">>, <<"/", "a", ">">>,
      <<"h">>, <<" ">> }

XmlTexts == TextsOf(XmlPieces, MaxXmlPieces)

XmlInit ==
    /\ pIn \in XmlTexts
    /\ pOut = Pending
    /\ NoDiscovery

CallExtractXml ==
    /\ pOut = Pending
    /\ pOut' = ExtractXml(pIn, XmlTag)
    /\ UNCHANGED <<hResp, hOut, pIn, discoverVars>>

XmlNext == CallExtractXml

SpecXml == XmlInit /\ [][XmlNext]_vars

----------------------------------------------------------------------------
(* extract_host_port and extract_path explored on short URLs *)

\* the scheme separator, a slash, a colon and two letters
UrlPieces == { <<":", "/", "/">>, <<"/">>, <<":">>, <<"h">>, <<"p">> }

UrlTexts == TextsOf(UrlPieces, MaxUrlPieces)

UrlInit ==
    /\ pIn \in UrlTexts
    /\ pOut = Pending
    /\ NoDiscovery

\* both halves of the location split, as extract_device_info calls them
CallSplitLocation ==
    /\ pOut = Pending
    /\ pOut' = [hostPort |-> ExtractHostPort(pIn), path |-> ExtractPath(pIn)]
    /\ UNCHANGED <<hResp, hOut, pIn, discoverVars>>

UrlNext == CallSplitLocation

SpecUrl == UrlInit /\ [][UrlNext]_vars

----------------------------------------------------------------------------
(* The tag extraction of extract_device_info explored on short payloads *)

\* a header line that holds tag-like text
TaggedHeaderLine ==
    <<"X-Note", ":", " ">> \o Element("friendlyName", <<"Fake">>) \o <<"\r", "\n">>

\* a status line, header lines, a line ending and description elements
PayloadPieces ==
    { StatusLine, TaggedHeaderLine, <<"\r", "\n">>,
      Element("friendlyName", <<"Receiver-A">>),
      Element("manufacturer", YamahaCorporation) }

PayloadTexts == TextsOf(PayloadPieces, MaxPayloadPieces)

PayloadInit ==
    /\ pIn \in PayloadTexts
    /\ pOut = Pending
    /\ NoDiscovery

\* lines 163-167 on the bytes read_to_end has gathered
CallDeviceInfoFrom ==
    /\ pOut = Pending
    /\ pOut' = DeviceInfoFrom(pIn)
    /\ UNCHANGED <<hResp, hOut, pIn, discoverVars>>

PayloadNext == CallDeviceInfoFrom

SpecPayload == PayloadInit /\ [][PayloadNext]_vars

----------------------------------------------------------------------------
(* Control API (src/src/lib.rs): how an operation turns the JSON envelope  *)
(* of the device into its result.  An unsigned 64-bit number is the pair   *)
(* of its 32-bit halves, hi * 2^32 + lo; a u32 is its value.               *)

\* impl From<u32> for ResponseCode: the codes the match names
KnownCodes ==
    (0 :> "Successful" @@ 1 :> "Initializing" @@ 2 :> "InternalError"
     @@ 3 :> "InvalidRequest" @@ 4 :> "InvalidParameter" @@ 5 :> "Guarded"
     @@ 6 :> "TimeOut" @@ 99 :> "FirmwareUpdating" @@ 100 :> "AccessError"
     @@ 101 :> "OtherErrors" @@ 102 :> "WrongUserName" @@ 103 :> "WrongPassword"
     @@ 104 :> "AccountExpired" @@ 105 :> "AccountDisconnected"
     @@ 106 :> "AccountLimitReached" @@ 107 :> "ServerMaintenance"
     @@ 108 :> "InvalidAccount" @@ 109 :> "LicenseError" @@ 110 :> "ReadOnlyMode"
     @@ 111 :> "MaxStations" @@ 112 :> "AccessDenied"
     @@ 113 :> "NeedSpecifyPlaylist" @@ 114 :> "NeedCreatePlaylist"
     @@ 115 :> "SimultaneousLoginsLimit" @@ 200 :> "LinkingInProgress"
     @@ 201 :> "UnlinkingInProgress")

\* ResponseCode::from(code: u32), with `_ => ResponseCode::OtherErrors`
ResponseCodeFrom(code) ==
    IF code \in DOMAIN KnownCodes THEN KnownCodes[code] ELSE "OtherErrors"

\* `as u32` on a u64: the low 32 bits, that is the value modulo 2^32
AsU32(n) == n.lo

\* Result<T, ResponseCode>
Ok(v) == [ok |-> TRUE, val |-> v]
Err(e) == [ok |-> FALSE, err |-> e]

\* value.get("response_code").and_then(|v| v.as_u64()): None when the field
\* is missing or is not a non-negative integer
CodeField(env) == IF env.code.kind = "u64" THEN Some(env.code) ELSE None

\* the lines every operation shares: yamaha_get, serde_json::from_str and
\* the response_code field, each failure mapped to InternalError
EnvelopeCode(env) ==
    IF ~env.transport THEN Err("InternalError")
    ELSE IF ~env.json THEN Err("InternalError")
    ELSE IF ~CodeField(env).some THEN Err("InternalError")
    ELSE Ok(AsU32(CodeField(env).val))

\* pub fn get_device_info(ip) -> Result<DeviceInfo, ResponseCode>
GetDeviceInfo(env) ==
    LET code == EnvelopeCode(env)
    IN  IF ~code.ok THEN code
        ELSE IF code.val = 0
        THEN IF env.fits THEN Ok("DeviceInfo") ELSE Err("InternalError")
        ELSE Err(ResponseCodeFrom(code.val))

\* pub fn toggle_zone_power(ip, zone) -> Result<(), ResponseCode>
ToggleZonePower(env) ==
    LET code == EnvelopeCode(env)
    IN  IF ~code.ok THEN code
        ELSE IF code.val = 0 THEN Ok("()")
        ELSE Err(ResponseCodeFrom(code.val))

\* the low halves explored: every named code and its neighbours
CodeSamples == (0..7) \cup (98..116) \cup (199..202)

\* the response_code field of an envelope: absent, not an unsigned integer
\* (a string, a negative or a fractional number), or an unsigned 64-bit number
CodeFields ==
    { [kind |-> "missing", hi |-> 0, lo |-> 0], [kind |-> "other", hi |-> 0, lo |-> 0] }
    \cup { [kind |-> "u64", hi |-> h, lo |-> l] : h \in 0..MaxHigh, l \in CodeSamples }

\* what the device sent: transport is whether yamaha_get returned a body,
\* json whether the body parses, fits whether it deserialises to DeviceInfo
Envelopes ==
    { [transport |-> FALSE, json |-> FALSE, fits |-> FALSE,
       code |-> [kind |-> "missing", hi |-> 0, lo |-> 0]],
      [transport |-> TRUE, json |-> FALSE, fits |-> FALSE,
       code |-> [kind |-> "missing", hi |-> 0, lo |-> 0]] }
    \cup { [transport |-> TRUE, json |-> TRUE, fits |-> f, code |-> c] :
              f \in BOOLEAN, c \in CodeFields }

ApiOperations == {"get_device_info", "toggle_zone_power"}

ApiInit ==
    /\ pIn \in [op : ApiOperations, env : Envelopes]
    /\ pOut = Pending
    /\ NoDiscovery

CallGetDeviceInfo ==
    /\ pOut = Pending
    /\ pIn.op = "get_device_info"
    /\ pOut' = GetDeviceInfo(pIn.env)
    /\ UNCHANGED <<hResp, hOut, pIn, discoverVars>>

CallToggleZonePower ==
    /\ pOut = Pending
    /\ pIn.op = "toggle_zone_power"
    /\ pOut' = ToggleZonePower(pIn.env)
    /\ UNCHANGED <<hResp, hOut, pIn, discoverVars>>

ApiNext == CallGetDeviceInfo \/ CallToggleZonePower

SpecApi == ApiInit /\ [][ApiNext]_vars

----------------------------------------------------------------------------
(* Claims about extract_header (checked under SpecHeader) *)

\* the first ":" of line l, 0 if it has none
FirstColon(l) ==
    IF \E i \in 1..Len(l) : l[i] = ":"
    THEN CHOOSE i \in 1..Len(l) : l[i] = ":" /\ \A j \in 1..(i - 1) : l[j] # ":"
    ELSE 0

\* line l is `X: value` for the asked header in some letter casing: its name,
\* the text before its first colon, is the header name
IsHeaderLine(l, header) ==
    /\ FirstColon(l) > 0
    /\ ToAsciiLowercase(Trim(SubSeq(l, 1, FirstColon(l) - 1))) = header

\* the value of such a line: what follows its first colon, trimmed
ValueOfLine(l) == Trim(SubSeq(l, FirstColon(l) + 1, Len(l)))

\* line l is one the scan stops at: trimmed and lower-cased it starts with
\* the header name, and it has a colon
StartsLikeHeader(l, header) ==
    /\ FirstColon(l) > 0
    /\ StartsWith(ToAsciiLowercase(Trim(l)), header)

\* C10 as stated: for any response text containing a line `X: value` (any
\* letter casing of X), extract_header(text, "x") returns "value"; for text
\* with no such line it returns nothing.
C10_AsStated ==
    hOut # Pending =>
        LET ls == Lines(hResp)
        IN  /\ \A i \in 1..Len(ls) :
                  IsHeaderLine(ls[i], HeaderName) => hOut = Some(ValueOfLine(ls[i]))
            /\ (\A i \in 1..Len(ls) : ~IsHeaderLine(ls[i], HeaderName)) => hOut = None

\* C10 amended: when the first line that (trimmed, in lower case) starts with
\* "x" and has a colon is a line `X: value`, extract_header(text, "x") returns
\* "value"; when no line starts with "x" and has a colon it returns nothing.
C10_ExtractHeader ==
    hOut # Pending =>
        LET ls == Lines(hResp)
        IN  /\ \A i \in 1..Len(ls) :
                  (/\ IsHeaderLine(ls[i], HeaderName)
                   /\ \A j \in 1..(i - 1) : ~StartsLikeHeader(ls[j], HeaderName))
                  => hOut = Some(ValueOfLine(ls[i]))
            /\ (\A i \in 1..Len(ls) : ~StartsLikeHeader(ls[i], HeaderName))
                  => hOut = None

\* C10 witness: the upper-case line `X: v` after another line was answered "v"
C10_Witness ==
    /\ hResp = <<"v", "\n", "X", ":", "v">>
    /\ hOut = Some(<<"v">>)

----------------------------------------------------------------------------
(* Claims about a discovery run (checked under Spec) *)

\* how often x occurs in the sequence s
Count(s, x) == Cardinality({k \in 1..Len(s) : s[k] = x})

\* no two entries of the sequence s carry the same ip
DistinctIps(s) == \A j, k \in 1..Len(s) : j # k => s[j].ip # s[k].ip

\* resolver w resolved its candidate, and the manufacturer is the vendor's
ResolvedYamaha(w) ==
    /\ resolvers[w].info.some
    /\ resolvers[w].info.val.manu = <<"Yamaha", " ", "Corporation">>

\* resolver w has ended without a description (its resolution failed)
ResolutionFailed(w) == resolvers[w].st = "done" /\ ~resolvers[w].info.some

\* C1 as stated: the list returned by discover_yamaha_devices contains at
\* most one entry per distinct source address, also when two interface
\* probes both observed the address.
C1_NoDuplicateAddresses == pc = "done" => DistinctIps(returned)

\* C2: every entry of the list comes from a candidate whose resolved
\* manufacturer is exactly "Yamaha Corporation"; a candidate that resolved
\* with any other manufacturer never gets to push an entry.
C2_OnlyYamaha ==
    /\ \A k \in 1..Len(result) :
          \E w \in 1..Len(resolvers) :
              /\ ResolvedYamaha(w)
              /\ resolvers[w].ip = result[k].ip
              /\ resolvers[w].info.val.friendly = result[k].name
    /\ \A w \in 1..Len(resolvers) :
          (resolvers[w].info.some /\ ~ResolvedYamaha(w)) => resolvers[w].st = "done"
    /\ Len(result) <= Cardinality({w \in 1..Len(resolvers) : ResolvedYamaha(w)})
    /\ pc = "done" => returned = result

\* C2 witness: a run has returned one device although two candidates
\* resolved with a well-formed friendlyName, one of them as "Other Corp"
C2_Witness ==
    /\ pc = "done"
    /\ Len(returned) = 1
    /\ Len(resolvers) = 2
    /\ \E w \in 1..Len(resolvers) :
          /\ resolvers[w].info.some
          /\ resolvers[w].info.val.manu = <<"Other", " ", "Corp">>
          /\ resolvers[w].info.val.friendly = <<"Receiver-A">>

\* C3 as stated: a prober whose bind or send fails contributes no candidates
\* and the failure is not fatal: the run does not end in a panic.
C3_SetupFailureNotFatal == pc # "panicked"

C5_ReadToEndBounded ==
    \A w \in 1..Len(resolvers) :
        resolvers[w].st = "reading" => resolvers[w].reads * DripInterval <= ReadTimeout

\* C6: no resolve worker starts before every probe worker has finished, and
\* the list is not returned before every resolve worker has finished.
C6_JoinBarriers ==
    /\ resolvers # <<>> => \A i \in 1..Len(probers) : probers[i].st = "done"
    /\ pc \in {"resolve_spawn", "resolve_join", "done"} =>
          \A i \in 1..Len(probers) : probers[i].st = "done"
    /\ pc = "done" =>
          /\ Len(resolvers) = Len(candidates)
          /\ \A w \in 1..Len(resolvers) : resolvers[w].st = "done"

\* C6 witness: a run with two probers and two resolvers has returned
C6_Witness ==
    /\ pc = "done"
    /\ Len(probers) = 2
    /\ Len(resolvers) >= 2

\* C7: within one call of discover_candidates_from_iface_addr no two
\* candidates share a source IP, and a recorded candidate is never replaced
\* or duplicated: the candidates only ever grow at the end.
C7_FirstSeenWins ==
    /\ [](\A i \in 1..Len(probers) :
            /\ DistinctIps(probers[i].cands)
            /\ probers[i].st = "recv" =>
                  probers[i].seen = {probers[i].cands[k].ip : k \in 1..Len(probers[i].cands)})
    /\ [](platform = "other" => DistinctIps(candidates))
    /\ [][\A i \in 1..Len(probers) :
            (probers[i].st = "recv" /\ probers'[i].st \in {"recv", "merge"}) =>
                /\ Len(probers'[i].cands) >= Len(probers[i].cands)
                /\ SubSeq(probers'[i].cands, 1, Len(probers[i].cands)) = probers[i].cands]_vars

\* C7 witness: the one prober has received two datagrams, both from
\* 10.0.0.7 and both with a LOCATION header, and holds one candidate
C7_Witness ==
    /\ platform = "other"
    /\ Len(probers) = 1
    /\ probers[1].st = "recv"
    /\ delivered = 2
    /\ probers[1].heard = {"10.0.0.7"}
    /\ Len(probers[1].cands) = 1

\* C8: under any interleaving the shared list holds exactly one entry
\* {ip, name} per ended resolver whose description resolved with the vendor's
\* manufacturer, ip being the source address of the candidate and name the
\* resolved friendlyName: no push is lost; and that list is what is returned.
C8_OneEntryPerYamahaCandidate ==
    /\ \A ip \in SourceIps \cup IpLiterals, name \in {<<"Receiver-A">>, <<"Receiver-B">>} :
          Count(result, [ip |-> ip, name |-> name]) =
              Cardinality({w \in 1..Len(resolvers) :
                              /\ resolvers[w].st = "done"
                              /\ ResolvedYamaha(w)
                              /\ candidates[w].ip = ip
                              /\ resolvers[w].info.val.friendly = name})
    /\ Len(result) =
          Cardinality({w \in 1..Len(resolvers) :
                          resolvers[w].st = "done" /\ ResolvedYamaha(w)})
    /\ pc = "done" => returned = result

\* C8 witness: two devices were returned, one of them for source address
\* 10.0.0.7, whose LOCATION names the host 10.0.0.5
C8_Witness ==
    /\ pc = "done"
    /\ Len(returned) = 2
    /\ returned[1].name # returned[2].name
    /\ \E w \in 1..Len(resolvers) :
          /\ resolvers[w].ip = "10.0.0.7"
          /\ ExtractHostPort(resolvers[w].loc) = Some(<<"10.0.0.5", ":", "49154">>)
          /\ ResolvedYamaha(w)

----------------------------------------------------------------------------
(* Claims about two runs in unchanged surroundings (checked under SpecTwice) *)

\* the second run has ended and its probers have heard every datagram the
\* probers of the first run heard
SecondRunEnded ==
    /\ run = 2
    /\ pc \in {"done", "panicked"}
    /\ \A b \in BindAddrs, d \in Datagrams : world.air[b][d] = 0

\* in the first run, the datagrams a prober heard from one source address
\* that carry a LOCATION header all carry the same one
OneLocationPerSource ==
    \A b \in BindAddrs, d1, d2 \in Datagrams :
        LET l1 == ExtractHeader(d1.text, <<"LOCATION">>)
            l2 == ExtractHeader(d2.text, <<"LOCATION">>)
        IN  (/\ first.heard[b][d1] > 0
             /\ first.heard[b][d2] > 0
             /\ d1.src = d2.src
             /\ l1.some
             /\ l2.some) => l1 = l2

\* C9 as stated: two runs against an unchanged network (same datagrams, same
\* description servers, arrival and completion order free) return set-equal
\* device lists.
C9_AsStated ==
    SecondRunEnded =>
        /\ (pc = "panicked") = first.panicked
        /\ {returned[k] : k \in 1..Len(returned)} = first.devices

\* C9 amended: the two runs return set-equal lists (or both panic) provided
\* every source address advertises a single LOCATION value to a prober.
C9_SetEqualRuns ==
    (SecondRunEnded /\ OneLocationPerSource) =>
        /\ (pc = "panicked") = first.panicked
        /\ {returned[k] : k \in 1..Len(returned)} = first.devices

\* C9 witness: both runs heard the same two datagrams, from two source
\* addresses, and both returned the same two devices
C9_Witness ==
    /\ SecondRunEnded
    /\ OneLocationPerSource
    /\ pc = "done"
    /\ Len(returned) = 2
    /\ {returned[k] : k \in 1..Len(returned)} = first.devices
    /\ \E d1, d2 \in Datagrams :
          /\ d1.src # d2.src
          /\ first.heard["0.0.0.0"][d1] = 1
          /\ first.heard["0.0.0.0"][d2] = 1

----------------------------------------------------------------------------
(* Claims about extract_xml (checked under SpecXml) *)

XmlOpen == <<"<">> \o XmlTag \o <<">">>
XmlClose == <<"<", "/">> \o XmlTag \o <<">">>

\* the positions at which p occurs in s
Occurrences(s, p) == {i \in 1..Len(s) : i + Len(p) - 1 <= Len(s) /\ SubSeq(s, i, i + Len(p) - 1) = p}

\* the least member of a non-empty set of positions
Least(S) == CHOOSE i \in S : \A j \in S : i <= j

\* the positions of the closing delimiter that lie after the first opening one
ClosesAfterOpen(s) ==
    {j \in Occurrences(s, XmlClose) : j >= Least(Occurrences(s, XmlOpen)) + Len(XmlOpen)}

\* C11: extract_xml returns the trimmed text between the first literal
\* opening delimiter and the next closing delimiter after it; it returns
\* nothing when the opening delimiter is absent, when the closing delimiter
\* is absent, or when the closing delimiter occurs only before the opening
\* one; every call ends with a value or with nothing, never with a failure.
C11_ExtractXml ==
    pOut # Pending =>
        /\ pOut \in {None} \cup {Some(t) : t \in {SubSeq(pIn, i, j) : i \in 1..(Len(pIn) + 1), j \in 0..Len(pIn)}}
        /\ Occurrences(pIn, XmlOpen) = {} => pOut = None
        /\ Occurrences(pIn, XmlClose) = {} => pOut = None
        /\ Occurrences(pIn, XmlOpen) # {} /\ ClosesAfterOpen(pIn) = {} => pOut = None
        /\ Occurrences(pIn, XmlOpen) # {} /\ ClosesAfterOpen(pIn) # {} =>
               pOut = Some(Trim(SubSeq(pIn, Least(Occurrences(pIn, XmlOpen)) + Len(XmlOpen),
                                       Least(ClosesAfterOpen(pIn)) - 1)))

\* a closing delimiter precedes the opening one, and the element after it is
\* extracted, white space trimmed
C11_Witness ==
    /\ pIn = XmlClose \o XmlOpen \o <<" ", "h">> \o XmlClose
    /\ pOut = Some(<<"h">>)

----------------------------------------------------------------------------
(* Claims about extract_host_port and extract_path (checked under SpecUrl) *)

SchemeSeparator == <<":", "/", "/">>

\* everything after the first "://" of a URL that has one
Remainder(url) ==
    SubSeq(url, Least(Occurrences(url, SchemeSeparator)) + Len(SchemeSeparator), Len(url))

\* C12: for every URL containing "://", the split cuts at the first "://"
\* and then at the first "/" of the whole remainder: hostPort is the text
\* before that "/", path is "/" plus everything after it (a bare "/" when
\* the remainder has no "/"), and nothing of the remainder is dropped.
C12_SplitLocation ==
    pOut # Pending /\ Occurrences(pIn, SchemeSeparator) # {} =>
        LET rem     == Remainder(pIn)
            slashes == Occurrences(rem, <<"/">>)
        IN  IF slashes = {}
            THEN /\ pOut.hostPort = Some(rem)
                 /\ pOut.path = Some(<<"/">>)
            ELSE /\ pOut.hostPort = Some(SubSeq(rem, 1, Least(slashes) - 1))
                 /\ pOut.path = Some(<<"/">> \o SubSeq(rem, Least(slashes) + 1, Len(rem)))

----------------------------------------------------------------------------
(* Claims about the receive loop of a prober (checked under Spec) *)

\* prober i stays in its receive loop over this step
StaysInLoop(i) ==
    /\ i <= Len(probers')
    /\ probers[i].st = "recv"
    /\ probers'[i].st = "recv"

\* prober i records a candidate in this step
RecordsCandidate(i) ==
    /\ StaysInLoop(i)
    /\ Len(probers'[i].cands) = Len(probers[i].cands) + 1

\* recv_from of prober i returns a datagram in this step
ReceivesDatagram(i) ==
    /\ StaysInLoop(i)
    /\ delivered' = delivered + 1
    /\ probers'[i].elapsed # probers[i].elapsed

\* the candidate a step has just recorded
Recorded(i) == probers'[i].cands[Len(probers'[i].cands)]

\* C13: a prober stops collecting when the elapsed time reaches the
\* 3-second window: a candidate is recorded only from a datagram that is
\* received while the elapsed time is still below the window, never from
\* one that arrives after the window has elapsed.
C13_OnlyWithinWindow ==
    [][\A i \in 1..Len(probers) :
          RecordsCandidate(i) => probers'[i].elapsed < Window]_vars

\* C14: the receive loop is time-bounded, not count-bounded: a prober
\* leaves the loop only once the full window has elapsed, however many
\* datagrams or receive errors it has had.
C14_TimeBounded ==
    [][\A i \in 1..Len(probers) :
          (i <= Len(probers') /\ probers[i].st = "recv" /\ probers'[i].st # "recv")
              => probers[i].elapsed >= Window]_vars

\* a prober has returned from the loop with two candidates, the first of
\* which did not end it
C14_Witness ==
    \E i \in 1..Len(probers) :
        probers[i].st = "merge" /\ Len(probers[i].cands) = 2

\* the source addresses of the candidates a prober has recorded
CandidateIps(p) == {p.cands[k].ip : k \in 1..Len(p.cands)}

\* the LOCATION values the datagrams from source address s can carry
LocationsFrom(s) ==
    {ExtractHeader(d.text, <<"LOCATION">>).val :
        d \in {e \in Datagrams : e.src = s /\ ExtractHeader(e.text, <<"LOCATION">>).some}}

\* C15 as stated: the source address of every received datagram is recorded
\* as seen, so a candidate is recorded only for a datagram whose source
\* address has sent no earlier datagram in this call.
C15_AsStated ==
    /\ [](\A i \in 1..Len(probers) : probers[i].heard \subseteq probers[i].seen)
    /\ [][\A i \in 1..Len(probers) :
             RecordsCandidate(i) => Recorded(i).ip \notin probers[i].heard]_vars

\* C15: a prober records as seen the source address of every datagram it
\* records a candidate from, and of no other; a candidate is recorded only
\* for a datagram that carries a location header and whose source address
\* has had no candidate recorded earlier in this call; every other datagram
\* is discarded without error, the prober staying in its loop unchanged but
\* for its clock.
C15_SeenOnRecord ==
    /\ [](\A i \in 1..Len(probers) :
             probers[i].st = "recv" => probers[i].seen = CandidateIps(probers[i]))
    /\ [][\A i \in 1..Len(probers) :
             /\ RecordsCandidate(i) =>
                   /\ ReceivesDatagram(i)
                   /\ Recorded(i).ip \notin probers[i].seen
                   /\ Recorded(i).loc \in LocationsFrom(Recorded(i).ip)
                   /\ SubSeq(probers'[i].cands, 1, Len(probers[i].cands)) = probers[i].cands
             /\ (i <= Len(probers') /\ probers[i].st = "recv" /\ delivered' = delivered + 1
                   /\ probers'[i].elapsed # probers[i].elapsed /\ ~RecordsCandidate(i)) =>
                   /\ probers'[i].st = "recv"
                   /\ probers'[i].cands = probers[i].cands
                   /\ probers'[i].seen = probers[i].seen]_vars

\* a prober has received two datagrams: the one without a LOCATION header
\* was discarded and its source is not seen, the other one was recorded
C15_Witness ==
    \E i \in 1..Len(probers) :
        /\ probers[i].st = "recv"
        /\ probers[i].heard = {"10.0.0.5", "10.0.0.7"}
        /\ probers[i].seen = {"10.0.0.7"}
        /\ Len(probers[i].cands) = 1

----------------------------------------------------------------------------
(* Claims about the tag extraction of the resolver (checked under SpecPayload) *)

BlankLine == <<"\r", "\n", "\r", "\n">>

\* the response body: the text after the first blank line, the whole
\* payload when it has no blank line
BodyOf(payload) ==
    IF Occurrences(payload, BlankLine) = {} THEN payload
    ELSE SubSeq(payload, Least(Occurrences(payload, BlankLine)) + Len(BlankLine),
                Len(payload))

\* the pair of tags, or nothing, found in a text by the quantifier reading
\* of extract_xml
TagIn(text, tag) ==
    LET open   == <<"<", tag, ">">>
        close  == <<"<", "/", tag, ">">>
        opens  == Occurrences(text, open)
        closes == {j \in Occurrences(text, close) : j >= Least(opens) + Len(open)}
    IN  IF opens = {} \/ closes = {} THEN None
        ELSE Some(Trim(SubSeq(text, Least(opens) + Len(open), Least(closes) - 1)))

\* C16: the resolver takes friendlyName and manufacturer from the response
\* body only (the text after the first blank line, the whole payload when
\* there is none): tag-like text in the status line or in a header never
\* determines the pair it returns.
C16_BodyOnly ==
    pOut # Pending =>
        LET friendly == TagIn(BodyOf(pIn), "friendlyName")
            manu     == TagIn(BodyOf(pIn), "manufacturer")
        IN  pOut = IF friendly.some /\ manu.some
                   THEN Some([friendly |-> friendly.val, manu |-> manu.val])
                   ELSE None

----------------------------------------------------------------------------
(* Claims about the locks of the shared collections (checked under Spec) *)

\* the states in which a worker does blocking network work
ProberNetworkStates == {"setup", "recv"}
ResolverNetworkStates == {"run", "reading"}

\* C17: no worker holds the lock on the shared candidate or result
\* collection while it does blocking network work: the lock is taken only
\* once the worker's network work is over, and the one step its holder
\* takes is the append that also releases it; no step of a worker doing
\* network work takes or releases a lock.
C17_NoLockAcrossNetwork ==
    /\ [](/\ \A i \in 1..Len(probers) :
                /\ candLock = i => probers[i].st = "locked"
                /\ probers[i].st \in ProberNetworkStates => candLock # i
          /\ \A w \in 1..Len(resolvers) :
                /\ resLock = w => resolvers[w].st = "locked"
                /\ resolvers[w].st \in ResolverNetworkStates => resLock # w)
    /\ [][/\ \A i \in 1..Len(probers) :
             (candLock = i /\ i <= Len(probers') /\ probers'[i] # probers[i]) =>
                 /\ candLock' = 0
                 /\ candShared' = candShared \o probers[i].cands
          /\ \A w \in 1..Len(resolvers) :
             (resLock = w /\ w <= Len(resolvers') /\ resolvers'[w] # resolvers[w]) =>
                 /\ resLock' = 0
                 /\ Len(result') = Len(result) + 1
          /\ \A i \in 1..Len(probers) :
             (i <= Len(probers') /\ probers[i].st \in ProberNetworkStates
                 /\ probers'[i] # probers[i]) => candLock' = candLock
          /\ \A w \in 1..Len(resolvers) :
             (w <= Len(resolvers') /\ resolvers[w].st \in ResolverNetworkStates
                 /\ resolvers'[w] # resolvers[w]) => resLock' = resLock]_vars

\* one resolver holds the lock on the result list while another one is
\* still reading from its server
C17_Witness ==
    \E w1, w2 \in 1..Len(resolvers) :
        /\ resLock = w1
        /\ resolvers[w1].st = "locked"
        /\ resolvers[w2].st = "reading"

----------------------------------------------------------------------------
(* Claims about the control API (checked under SpecApi) *)

\* the envelope arrived, parsed, and its response_code is an unsigned number
HasNumericCode(env) == env.transport /\ env.json /\ env.code.kind = "u64"

\* the number is zero
IsZero(n) == n.hi = 0 /\ n.lo = 0

\* the response code that the number n names: n itself looked up among the
\* named codes, so a number of 2^32 or more, which no code is named for,
\* is OtherErrors
ResponseCodeOfNumber(n) == IF n.hi = 0 THEN ResponseCodeFrom(n.lo) ELSE "OtherErrors"

\* C18: an operation of the control API returns Ok only if the numeric
\* response_code of the envelope equals 0; for every non-zero unsigned
\* 64-bit response_code n, also n >= 2^32, it returns Err with the response
\* code that n names.
C18_ResponseCode ==
    (pOut # Pending /\ HasNumericCode(pIn.env)) =>
        /\ pOut.ok => IsZero(pIn.env.code)
        /\ ~IsZero(pIn.env.code) => pOut = Err(ResponseCodeOfNumber(pIn.env.code))

====
